---- MODULE Spec2Model ----
(* Model of the synapse Manager: the resource cache, the bidirectional     *)
(* subscription graph and the update/fan-out logic (Manager.ts).           *)
(* JavaScript runs a handler to its next await without interruption, so    *)
(* every action below is one such run: a public call up to its first       *)
(* suspension, or the continuation that runs when a generator call          *)
(* resolves. Schema.validate (Schema.ts) is modelled beside it, one step   *)
(* per call and per awaited parse.                                         *)
EXTENDS Integers, FiniteSets, Sequences, Bags, TLC

\* ---------------------------------------------------------------- bounds
\* Number of generator (Resolver) calls one behaviour may issue (one more in
\* WindowSpec).
MaxCalls == 3

\* ---------------------------------------------------------------- values
Undefined == "undefined"
Null == "null"
NotFound == 404

Clients == {"c1", "c2"}
\* resource paths are arbitrary strings; the empty string is one of them
Paths == {"", "/a"}
Payloads == {"v1", Undefined}
Statuses == {200, NotFound, 500}
Data == {"d"}
MutationVerbs == {"post", "put", "patch", "delete"}

\* A Reply as Manager sees it: a status and a payload. The payload of an
\* error Reply is its message, which Manager never reads.
ErrorBody == "err"
Results == [status : {200}, payload : Payloads]
             \cup [status : Statuses \ {200}, payload : {ErrorBody}]

\* Reply.prototype.isError
IsError(result) == ~(result.status >= 200 /\ result.status < 300)

\* Reply.OK(payload)
ReplyOK(payload) == [status |-> 200, payload |-> payload]

\* JavaScript truthiness of the `path` argument (string or null)
Truthy(path) == path # Null /\ path # ""

\* ------------------------------------------------------------ Map helpers
MapHas(m, k) == k \in DOMAIN m
MapSet(m, k, v) == [x \in DOMAIN m \cup {k} |-> IF x = k THEN v ELSE m[x]]
MapDelete(m, k) == [x \in DOMAIN m \ {k} |-> m[x]]
EmptyMap == [x \in {} |-> {}]

\* ------------------------------------------------------------- subscribe
\* subscribe that records the client under the path but not the path under
\* the client
SubscribeOp_OneWay(subs, deps, client, path) ==
  LET subs1 == IF ~MapHas(subs, client) THEN MapSet(subs, client, {}) ELSE subs
      deps1 == IF ~MapHas(deps, path) THEN MapSet(deps, path, {}) ELSE deps
  IN  [subs |-> subs1, deps |-> MapSet(deps1, path, deps1[path] \cup {client}),
       threw |-> FALSE]

\* Manager.subscribe(client, path) on the two maps; returns the new maps.
SubscribeOp_AddOnlyToExisting(subs, deps, client, path) ==
  [subs |-> IF ~MapHas(subs, client) THEN MapSet(subs, client, {})
            ELSE MapSet(subs, client, subs[client] \cup {path}),
   deps |-> IF ~MapHas(deps, path) THEN MapSet(deps, path, {})
            ELSE MapSet(deps, path, deps[path] \cup {client}),
   threw |-> FALSE]

SubscribeOp(subs, deps, client, path) ==
  LET subs1 == IF ~MapHas(subs, client) THEN MapSet(subs, client, {}) ELSE subs
      deps1 == IF ~MapHas(deps, path) THEN MapSet(deps, path, {}) ELSE deps
      deps2 == MapSet(deps1, path, deps1[path] \cup {client})
      subs2 == MapSet(subs1, client, subs1[client] \cup {path})
  IN  [subs |-> subs2, deps |-> deps2, threw |-> FALSE]

\* ----------------------------------------------------------- unsubscribe
\* The targets `remove` iterates over: [path] when path is truthy, else the
\* client's own subscription set (undefined when the client has no entry).
RemoveTargets(subs, client, path) ==
  IF Truthy(path) THEN {path}
  ELSE IF MapHas(subs, client) THEN subs[client] ELSE {}

\* The forEach callback of unsubscribe applied to the targets still to be
\* visited. `subscriptions.delete(target)` throws when the client has no
\* entry, `dependents.delete(client)` throws when the target has no
\* dependents entry; a throw ends the loop with the maps as they are then.
RECURSIVE UnsubscribeLoop(_, _, _, _)
UnsubscribeLoop(subs, deps, client, todo) ==
  IF todo = {} THEN [subs |-> subs, deps |-> deps, threw |-> FALSE]
  ELSE LET target == CHOOSE t \in todo : TRUE IN
       IF ~MapHas(subs, client)
       THEN [subs |-> subs, deps |-> deps, threw |-> TRUE]
       ELSE LET subs1 == MapSet(subs, client, subs[client] \ {target}) IN
            IF ~MapHas(deps, target)
            THEN [subs |-> subs1, deps |-> deps, threw |-> TRUE]
            ELSE UnsubscribeLoop(subs1,
                                 MapSet(deps, target, deps[target] \ {client}),
                                 client, todo \ {target})

\* Manager.unsubscribe(client, path = null)
UnsubscribeOp_KeepDependent(subs, deps, client, path) ==
  IF ~MapHas(subs, client)
  THEN [subs |-> subs, deps |-> deps, threw |-> TRUE]
  ELSE [subs |-> MapSet(subs, client,
                        subs[client] \ RemoveTargets(subs, client, path)),
        deps |-> deps, threw |-> FALSE]

UnsubscribeOp_ForgetDependents(subs, deps, client, path) ==
  IF ~Truthy(path)
  THEN [subs |-> MapSet(subs, client, {}), deps |-> deps, threw |-> FALSE]
  ELSE UnsubscribeLoop(subs, deps, client, RemoveTargets(subs, client, path))

UnsubscribeOp(subs, deps, client, path) ==
  IF ~Truthy(path) /\ ~MapHas(subs, client)
  THEN \* remove is undefined: remove.forEach throws
       [subs |-> subs, deps |-> deps, threw |-> TRUE]
  ELSE UnsubscribeLoop(subs, deps, client, RemoveTargets(subs, client, path))

\* ---------------------------------------------------------------- update
\* A notification: the client callback invoked as client(path, value).
Note(client, path, value) == [client |-> client, path |-> path, value |-> value]

\* fan-out that invokes the dependents of every path
FanOut_EveryPath(cache, deps, path) ==
  SetToBag({Note(c, path, cache[path]) : c \in UNION {deps[q] : q \in DOMAIN deps}})

\* dependents.get(path).forEach(client => client(path, cache.get(path)))
FanOut(cache, deps, path) ==
  IF MapHas(deps, path)
  THEN SetToBag({Note(c, path, cache[path]) : c \in deps[path]})
  ELSE EmptyBag

\* The 404 forEach: each dependent of path still in the (live) set is first
\* unsubscribed from path, then invoked with (path, undefined). A throw in
\* unsubscribe leaves the loop before the callback is invoked.
RECURSIVE EvictLoop(_, _, _, _, _)
EvictLoop(subs, deps, path, visited, notes) ==
  IF deps[path] \ visited = {}
  THEN [subs |-> subs, deps |-> deps, notes |-> notes, threw |-> FALSE]
  ELSE LET client == CHOOSE c \in deps[path] \ visited : TRUE
           r == UnsubscribeOp(subs, deps, client, path)
       IN  IF r.threw
           THEN [subs |-> r.subs, deps |-> r.deps, notes |-> notes, threw |-> TRUE]
           ELSE EvictLoop(r.subs, r.deps, path, visited \cup {client},
                          notes (+) SetToBag({Note(client, path, Undefined)}))

Evict_KeepCache(cache, subs, deps, path) ==
  LET r == IF MapHas(deps, path)
           THEN EvictLoop(subs, deps, path, {}, EmptyBag)
           ELSE [subs |-> subs, deps |-> deps, notes |-> EmptyBag, threw |-> FALSE]
  IN  [cache |-> cache, subs |-> r.subs, deps |-> r.deps,
       notes |-> r.notes, threw |-> r.threw]

\* The 404 branch of update: cache.delete(path), then the forEach above.
Evict(cache, subs, deps, path) ==
  LET r == IF MapHas(deps, path)
           THEN EvictLoop(subs, deps, path, {}, EmptyBag)
           ELSE [subs |-> subs, deps |-> deps, notes |-> EmptyBag, threw |-> FALSE]
  IN  [cache |-> MapDelete(cache, path), subs |-> r.subs, deps |-> r.deps,
       notes |-> r.notes, threw |-> r.threw]

\* update that takes every error Reply for "not found"
UpdateBody_EvictOnAnyError(cache, subs, deps, path, result) ==
  IF ~IsError(result)
  THEN LET cache1 == MapSet(cache, path, result.payload) IN
       [cache |-> cache1, subs |-> subs, deps |-> deps,
        notes |-> FanOut(cache1, deps, path), threw |-> FALSE]
  ELSE Evict(cache, subs, deps, path)

\* The part of Manager.update(path) that runs once the generator's "get"
\* has resolved with `result`.
UpdateBody_FirstWriterWins(cache, subs, deps, path, result) ==
  IF ~IsError(result)
  THEN LET cache1 == IF MapHas(cache, path) THEN cache
                     ELSE MapSet(cache, path, result.payload) IN
       [cache |-> cache1, subs |-> subs, deps |-> deps,
        notes |-> FanOut(cache1, deps, path), threw |-> FALSE]
  ELSE IF result.status = NotFound THEN Evict(cache, subs, deps, path)
  ELSE [cache |-> cache, subs |-> subs, deps |-> deps, notes |-> EmptyBag,
        threw |-> FALSE]

UpdateBody_NotifyBeforeWrite(cache, subs, deps, path, result) ==
  IF ~IsError(result)
  THEN LET cache0 == IF MapHas(cache, path) THEN cache
                     ELSE MapSet(cache, path, Undefined) IN
       [cache |-> MapSet(cache, path, result.payload), subs |-> subs,
        deps |-> deps, notes |-> FanOut(cache0, deps, path), threw |-> FALSE]
  ELSE IF result.status = NotFound THEN Evict(cache, subs, deps, path)
  ELSE [cache |-> cache, subs |-> subs, deps |-> deps, notes |-> EmptyBag,
        threw |-> FALSE]

UpdateBody(cache, subs, deps, path, result) ==
  IF ~IsError(result)
  THEN LET cache1 == MapSet(cache, path, result.payload) IN
       [cache |-> cache1, subs |-> subs, deps |-> deps,
        notes |-> FanOut(cache1, deps, path), threw |-> FALSE]
  ELSE IF result.status = NotFound
  THEN Evict(cache, subs, deps, path)
  ELSE [cache |-> cache, subs |-> subs, deps |-> deps,
        notes |-> EmptyBag, threw |-> FALSE]

\* a mutation that refreshes whatever its Reply is
MutationRefreshes_Always(result) == TRUE

\* a mutation that refreshes on an error Reply only
MutationRefreshes_OnError(result) == IsError(result)

\* Whether the continuation of post/put/patch/delete calls this.update(path)
MutationRefreshes(result) == ~IsError(result)

\* get that tests the cached value instead of the presence of the entry
GetServesFromCache_Truthy(cache, path) ==
  MapHas(cache, path) /\ cache[path] # Undefined

\* Whether get(path) answers from the cache
GetServesFromCache(cache, path) == MapHas(cache, path)

\* ------------------------------------------------------- Schema.validate
\* A Schema's `fields` is given by Object.keys(fields), a sequence of keys
\* without repetition; what each Field's parse answers is left open.
MaxFields == 2
FieldKeys == {"a", "b", "c"}
DataKeys == FieldKeys \cup {"x"}
Inputs == {"1"}
Parsed == {"n1", "n2"}
Schemas == {f \in UNION {[1..n -> FieldKeys] : n \in 0..MaxFields} :
              \A i, j \in DOMAIN f : i # j => f[i] # f[j]}
DataObjects == UNION {[S -> Inputs] : S \in SUBSET DataKeys}
SeqRange(f) == {f[i] : i \in DOMAIN f}

\* data[key]: undefined when data has no such key
Prop(data, key) == IF key \in DOMAIN data THEN data[key] ELSE Undefined
NoObject == [x \in {} |-> Undefined]
NotReturned == [kind |-> "none", value |-> NoObject]
ReturnedUndefined == [kind |-> "undefined", value |-> NoObject]
ReturnedObject(o) == [kind |-> "object", value |-> o]
\* `Unexpected parameter '${key} = ${data[key]}'.`
ErrorFor(key, value) == [key |-> key, value |-> value]
NoError == ErrorFor(Undefined, Undefined)

\* new Schema(fields): no call of validate yet, no lastError
NewSchema(fields) ==
  [pc |-> "idle", fields |-> fields, data |-> NoObject, i |-> 0,
   result |-> NoObject, asked |-> <<>>, answers |-> <<>>,
   lastError |-> NoError, returned |-> NotReturned]

\* the head of the for loop at index i: past the last key validate returns
\* result, else it calls fields[keys[i]].parse(data[keys[i]]) and awaits
LoopHead(v, i) ==
  IF i > Len(v.fields)
  THEN [v EXCEPT !.pc = "returned", !.i = i, !.returned = ReturnedObject(v.result)]
  ELSE [v EXCEPT !.pc = "parsing", !.i = i,
                 !.asked = Append(v.asked, [key |-> v.fields[i],
                                            arg |-> Prop(v.data, v.fields[i])])]

\* validate(data) up to its first await
ValidateCall(v, data) ==
  LoopHead([v EXCEPT !.data = data, !.result = NoObject, !.asked = <<>>,
                     !.answers = <<>>, !.returned = NotReturned], 1)

ValidateResume_KeepGoing(v, value) ==
  LET key == v.fields[v.i]
      v1 == [v EXCEPT !.answers = Append(v.answers, value)] IN
  IF value = Undefined
  THEN LoopHead([v1 EXCEPT !.lastError = ErrorFor(key, Prop(v.data, key))],
                v.i + 1)
  ELSE LoopHead([v1 EXCEPT !.result = MapSet(v.result, key, value)], v.i + 1)

\* the rest of the loop body once the awaited parse has answered `value`
ValidateResume(v, value) ==
  LET key == v.fields[v.i]
      v1 == [v EXCEPT !.answers = Append(v.answers, value)] IN
  IF value = Undefined
  THEN [v1 EXCEPT !.pc = "returned", !.returned = ReturnedUndefined,
                  !.lastError = ErrorFor(key, Prop(v.data, key))]
  ELSE LoopHead([v1 EXCEPT !.result = MapSet(v.result, key, value)], v.i + 1)

\* ----------------------------------------------------------------- state
VARIABLES
  cache,          \* Manager.cache: path -> last known value
  dependents,     \* Manager.dependents: path -> set of clients
  subscriptions,  \* Manager.subscriptions: client -> set of paths
  inflight,       \* generator calls awaiting their Reply, oldest first
  calls,          \* number of generator calls made so far
  budget,         \* number of generator calls this run may make
  fresh,          \* history: per path, the payload of the latest update
                  \* resolution if that was a non-error Reply
  settled,        \* history: per path, the payload of the latest update
                  \* resolution that was non-error or 404, if non-error
  last,           \* history: what the latest step did
  traced,         \* whether this run keeps `trail` and `quiet`
  trail,          \* history: the latest two steps, newest first, each with
                  \* the dependents map it started from
  quiet,          \* history: the clients that called unsubscribe without a
                  \* path and have not subscribed since
  validation      \* the call of Schema.validate in progress, see below

vars == <<cache, dependents, subscriptions, inflight, calls, budget, fresh,
          settled, last, traced, trail, quiet, validation>>

\* A generator call and the continuation waiting for it.
\* origin: the method suspended on the call: "update" (called directly or
\* returned by get), a mutation verb, or "refresh" for the update that a
\* mutation starts and does not await.
Call(verb, path, data, origin) ==
  [verb |-> verb, path |-> path, data |-> data, origin |-> origin]
NoCall == Call("none", Null, Undefined, "none")
NoResult == [status |-> 0, payload |-> Undefined]
NoValue == "none"

\* pos: the place in `inflight` of the call whose continuation ran (0: none)
Step(op, client, path, pos, call, result, returned, threw, notes, issued) ==
  [op |-> op, client |-> client, path |-> path, pos |-> pos, call |-> call,
   result |-> result, returned |-> returned, threw |-> threw,
   notes |-> notes, issued |-> issued]

\* inflight without its i-th call
Without(q, i) ==
  [j \in 1..(Len(q) - 1) |-> IF j < i THEN q[j] ELSE q[j + 1]]

\* generator calls a behaviour is still allowed to issue: a pending mutation
\* keeps one in reserve for the update its continuation may start
Reserved ==
  Cardinality({i \in DOMAIN inflight : inflight[i].verb \in MutationVerbs})
Room(n) == calls + Reserved + n <= budget

\* A new Manager, allowed b generator calls, beside a new Schema with one of
\* the field lists F; t: whether the run keeps the trail.
InitOver(b, t, F) ==
  /\ cache = EmptyMap
  /\ dependents = EmptyMap
  /\ subscriptions = EmptyMap
  /\ inflight = <<>>
  /\ calls = 0
  /\ budget = b
  /\ fresh = [p \in Paths |-> NoValue]
  /\ settled = [p \in Paths |-> NoValue]
  /\ last = Step("init", Null, Null, 0, NoCall, NoResult, NoResult, FALSE,
                 EmptyBag, {})
  /\ traced = t
  /\ trail = <<>>
  /\ quiet = {}
  /\ validation \in {NewSchema(f) : f \in F}

Init == InitOver(MaxCalls, FALSE, {<<>>})

\* What a step of the Manager leaves behind in the history of a traced run;
\* it does not touch the Schema.
Track ==
  /\ traced' = traced
  /\ IF traced
     THEN /\ trail' = <<[step |-> last', deps |-> dependents]>>
                       \o (IF trail = <<>> THEN <<>> ELSE <<trail[1]>>)
          /\ quiet' = IF last'.op = "unsubscribe" /\ last'.path = Null
                      THEN quiet \cup {last'.client}
                      ELSE IF last'.op = "subscribe"
                      THEN quiet \ {last'.client}
                      ELSE quiet
     ELSE UNCHANGED <<trail, quiet>>
  /\ UNCHANGED <<budget, validation>>

\* ---------------------------------------------------------------- actions
Subscribe_DeliversCached(client, path) ==
  LET r == SubscribeOp(subscriptions, dependents, client, path) IN
  /\ subscriptions' = r.subs
  /\ dependents' = r.deps
  /\ last' = Step("subscribe", client, path, 0, NoCall, NoResult, NoResult,
                  r.threw,
                  IF MapHas(cache, path)
                  THEN SetToBag({Note(client, path, cache[path])})
                  ELSE EmptyBag, {})
  /\ UNCHANGED <<cache, inflight, calls, fresh, settled>>
  /\ Track

Subscribe(client, path) ==
  LET r == SubscribeOp(subscriptions, dependents, client, path) IN
  /\ subscriptions' = r.subs
  /\ dependents' = r.deps
  /\ last' = Step("subscribe", client, path, 0, NoCall, NoResult, NoResult,
                  r.threw, EmptyBag, {})
  /\ UNCHANGED <<cache, inflight, calls, fresh, settled>>
  /\ Track

\* path is a path string, or Null when the argument is omitted
Unsubscribe(client, path) ==
  LET r == UnsubscribeOp(subscriptions, dependents, client, path) IN
  /\ subscriptions' = r.subs
  /\ dependents' = r.deps
  /\ last' = Step("unsubscribe", client, path, 0, NoCall, NoResult, NoResult,
                  r.threw, EmptyBag, {})
  /\ UNCHANGED <<cache, inflight, calls, fresh, settled>>
  /\ Track

\* update(path) up to `await this.generator("get", path)`
Update(path) ==
  /\ Room(1)
  /\ LET call == Call("get", path, Undefined, "update") IN
     /\ inflight' = Append(inflight, call)
     /\ last' = Step("update", Null, path, 0, NoCall, NoResult, NoResult,
                     FALSE, EmptyBag, {call})
  /\ calls' = calls + 1
  /\ UNCHANGED <<cache, dependents, subscriptions, fresh, settled>>
  /\ Track

\* get(path): answered from the cache, or update(path) up to its await
Get(path) ==
  /\ IF GetServesFromCache(cache, path)
     THEN /\ last' = Step("get", Null, path, 0, NoCall, NoResult,
                          ReplyOK(cache[path]), FALSE, EmptyBag, {})
          /\ UNCHANGED <<inflight, calls>>
     ELSE /\ Room(1)
          /\ LET call == Call("get", path, Undefined, "update") IN
             /\ inflight' = Append(inflight, call)
             /\ last' = Step("get", Null, path, 0, NoCall, NoResult, NoResult,
                             FALSE, EmptyBag, {call})
          /\ calls' = calls + 1
  /\ UNCHANGED <<cache, dependents, subscriptions, fresh, settled>>
  /\ Track

\* post/put/patch(path, data) and delete(path) up to
\* `await this.generator(verb, path, data)`
Mutate(verb, path, data) ==
  /\ Room(2)
  /\ LET call == Call(verb, path, data, verb) IN
     /\ inflight' = Append(inflight, call)
     /\ last' = Step(verb, Null, path, 0, NoCall, NoResult, NoResult,
                     FALSE, EmptyBag, {call})
  /\ calls' = calls + 1
  /\ UNCHANGED <<cache, dependents, subscriptions, fresh, settled>>
  /\ Track

Post(path, data) == Mutate("post", path, data)
Put(path, data) == Mutate("put", path, data)
Patch(path, data) == Mutate("patch", path, data)
Delete(path) == Mutate("delete", path, Null)

\* The generator answers the i-th pending call, a "get": the rest of
\* update(path) runs.
ResolveUpdate(i, result) ==
  /\ i \in DOMAIN inflight
  /\ inflight[i].verb = "get"
  /\ LET call == inflight[i]
         r == UpdateBody(cache, subscriptions, dependents, call.path, result) IN
     /\ cache' = r.cache
     /\ subscriptions' = r.subs
     /\ dependents' = r.deps
     /\ last' = Step("resolve", Null, call.path, i, call, result,
                     IF r.threw THEN NoResult ELSE result, r.threw, r.notes, {})
     /\ fresh' = [fresh EXCEPT ![call.path] =
                    IF IsError(result) THEN NoValue ELSE result.payload]
     /\ settled' = [settled EXCEPT ![call.path] =
                      IF ~IsError(result) THEN result.payload
                      ELSE IF result.status = NotFound THEN NoValue
                      ELSE settled[call.path]]
  /\ inflight' = Without(inflight, i)
  /\ UNCHANGED calls
  /\ Track

\* The generator answers the i-th pending call, a post/put/patch/delete: the
\* rest of the mutation runs; on a non-error Reply it starts update(path),
\* which runs up to its own await, and returns the mutation's Reply without
\* awaiting it.
ResolveMutation_WritesThrough(i, result) ==
  /\ i \in DOMAIN inflight
  /\ inflight[i].verb \in MutationVerbs
  /\ LET call == inflight[i] IN
     IF MutationRefreshes(result)
     THEN LET refresh == Call("get", call.path, Undefined, "refresh") IN
          /\ inflight' = Append(Without(inflight, i), refresh)
          /\ calls' = calls + 1
          /\ cache' = MapSet(cache, call.path, result.payload)
          /\ last' = Step("resolve", Null, call.path, i, call, result, result,
                          FALSE, EmptyBag, {refresh})
     ELSE /\ inflight' = Without(inflight, i)
          /\ calls' = calls
          /\ cache' = cache
          /\ last' = Step("resolve", Null, call.path, i, call, result, result,
                          FALSE, EmptyBag, {})
  /\ UNCHANGED <<dependents, subscriptions, fresh, settled>>
  /\ Track

ResolveMutation(i, result) ==
  /\ i \in DOMAIN inflight
  /\ inflight[i].verb \in MutationVerbs
  /\ LET call == inflight[i] IN
     IF MutationRefreshes(result)
     THEN LET refresh == Call("get", call.path, Undefined, "refresh") IN
          /\ inflight' = Append(Without(inflight, i), refresh)
          /\ calls' = calls + 1
          /\ last' = Step("resolve", Null, call.path, i, call, result, result,
                          FALSE, EmptyBag, {refresh})
     ELSE /\ inflight' = Without(inflight, i)
          /\ calls' = calls
          /\ last' = Step("resolve", Null, call.path, i, call, result, result,
                          FALSE, EmptyBag, {})
  /\ UNCHANGED <<cache, dependents, subscriptions, fresh, settled>>
  /\ Track

\* One step of a Manager used by the clients C on the paths P.
NextOver(C, P) ==
  \/ \E c \in C, p \in P : Subscribe(c, p)
  \/ \E c \in C, p \in P \cup {Null} : Unsubscribe(c, p)
  \/ \E p \in P : Update(p)
  \/ \E p \in P : Get(p)
  \/ \E p \in P, d \in Data : Post(p, d)
  \/ \E p \in P, d \in Data : Put(p, d)
  \/ \E p \in P, d \in Data : Patch(p, d)
  \/ \E p \in P : Delete(p)
  \/ \E i \in 1..(MaxCalls + 1), r \in Results : ResolveUpdate(i, r)
  \/ \E i \in 1..(MaxCalls + 1), r \in Results : ResolveMutation(i, r)

Next == NextOver(Clients, Paths)

Spec == Init /\ [][Next]_vars

\* The generator answers: a continuation that can run eventually runs.
\* Liveness is checked for one client and one path.
Resolve == \E i \in 1..(MaxCalls + 1), r \in Results :
             ResolveUpdate(i, r) \/ ResolveMutation(i, r)
FairNext == NextOver({"c1"}, {"/a"})
FairSpec == Init /\ [][FairNext]_vars /\ WF_vars(Resolve)

\* The same Manager on one path, keeping the trail: the interleavings of
\* subscribe, unsubscribe and the continuations of update on that path.
TraceInit == InitOver(MaxCalls, TRUE, {<<>>})
TraceNext == NextOver(Clients, {"/a"})
TraceSpec == TraceInit /\ [][TraceNext]_vars

\* The same Manager on one path with one more generator call: room for a
\* cached value, an update and a mutation with its refresh.
WindowInit == InitOver(MaxCalls + 1, FALSE, {<<>>})
WindowNext == NextOver(Clients, {"/a"})
WindowSpec == WindowInit /\ [][WindowNext]_vars

\* ------------------------------------------------- Schema.validate, steps
managerVars == <<cache, dependents, subscriptions, inflight, calls, budget,
                 fresh, settled, last, traced, trail, quiet>>

\* validate(data) is called while no call of it is in progress
Validate(data) ==
  /\ validation.pc # "parsing"
  /\ validation' = ValidateCall(validation, data)
  /\ UNCHANGED managerVars

\* the awaited field.parse answers `value`, a parsed value or undefined
ParseAnswers(value) ==
  /\ validation.pc = "parsing"
  /\ validation' = ValidateResume(validation, value)
  /\ UNCHANGED managerVars

SchemaInit == InitOver(MaxCalls, FALSE, Schemas)
SchemaNext ==
  \/ \E data \in DataObjects : Validate(data)
  \/ \E value \in Parsed \cup {Undefined} : ParseAnswers(value)
SchemaSpec == SchemaInit /\ [][SchemaNext]_vars

\* ------------------------------------------------------- reading the graph
\* dependentsOf(path) and subscriptionsOf(client): a missing entry is the
\* empty set
DependentsOf(deps, path) == IF MapHas(deps, path) THEN deps[path] ELSE {}
SubscriptionsOf(subs, client) == IF MapHas(subs, client) THEN subs[client] ELSE {}
\* the edges recorded in each direction
EdgesByPath(deps) == {e \in Clients \X Paths : e[1] \in DependentsOf(deps, e[2])}
EdgesByClient(subs) == {e \in Clients \X Paths : e[2] \in SubscriptionsOf(subs, e[1])}

\* this.cache.has(path) together with this.cache.get(path)
CacheEntry(c, path) == IF MapHas(c, path) THEN <<c[path]>> ELSE <<>>

\* the latest step was the continuation of update(path) / of a mutation
ResolvedUpdate(l) == l.op = "resolve" /\ l.call.verb = "get"
ResolvedMutation(l) == l.op = "resolve" /\ l.call.verb \in MutationVerbs

\* ------------------------------------------------------------------ claims

\* C1: in every reachable state, for every client c and path p, c is in
\* dependents[p] if and only if p is in subscriptions[c].
C1_Symmetry == EdgesByPath(dependents) = EdgesByClient(subscriptions)

\* an eviction cascade has just notified two clients and an edge survives it
C1_Witness ==
  /\ ResolvedUpdate(last)
  /\ last.result.status = NotFound
  /\ BagCardinality(last.notes) = 2
  /\ EdgesByPath(dependents) # {}

\* C2: unsubscribe(client, path) for an edge that does not exist, and
\* unsubscribe(client) for a client with no subscriptions, completes without
\* throwing and leaves the graph and the cache unchanged.
C2_UnsubscribeNeverErrors ==
  [][(/\ last'.op = "unsubscribe"
      /\ IF last'.path = Null
         THEN SubscriptionsOf(subscriptions, last'.client) = {}
         ELSE <<last'.client, last'.path>> \notin EdgesByPath(dependents))
     => (/\ ~last'.threw
         /\ EdgesByPath(dependents') = EdgesByPath(dependents)
         /\ EdgesByClient(subscriptions') = EdgesByClient(subscriptions)
         /\ cache' = cache)]_vars

\* C3: right after update(p) resolves with status 404, the cache has no
\* entry for p, nobody is subscribed to p, every client that was subscribed
\* to p has been notified exactly once with (p, undefined), and the edges to
\* paths other than p are unchanged.
C3_EvictionCascade ==
  [][(ResolvedUpdate(last') /\ last'.result.status = NotFound)
     => LET p == last'.path IN
        /\ ~MapHas(cache', p)
        /\ DependentsOf(dependents', p) = {}
        /\ \A c \in Clients : p \notin SubscriptionsOf(subscriptions', c)
        /\ last'.notes =
             SetToBag({Note(c, p, Undefined) : c \in DependentsOf(dependents, p)})
        /\ \A e \in Clients \X (Paths \ {p}) :
             /\ e \in EdgesByPath(dependents') <=> e \in EdgesByPath(dependents)
             /\ e \in EdgesByClient(subscriptions')
                  <=> e \in EdgesByClient(subscriptions)]_vars

\* C4: when update(p) resolves with a non-error Reply, cache[p] becomes its
\* payload, and the notifications sent are exactly one (p, payload) to each
\* client that is a dependent of p at that moment.
C4_SuccessFanOut ==
  [][(ResolvedUpdate(last') /\ ~IsError(last'.result))
     => LET p == last'.path IN
        /\ MapHas(cache', p)
        /\ cache'[p] = last'.result.payload
        /\ last'.notes =
             SetToBag({Note(c, p, last'.result.payload) :
                         c \in DependentsOf(dependents, p)})]_vars

\* a successful update notified one client while the other client, a
\* dependent of another path only, was left alone
C4_Witness ==
  /\ ResolvedUpdate(last)
  /\ ~IsError(last.result)
  /\ BagCardinality(last.notes) = 1
  /\ \E c \in Clients :
       /\ c \notin DependentsOf(dependents, last.path)
       /\ SubscriptionsOf(subscriptions, c) # {}

\* C5: when update(p) resolves with an error Reply whose status is not 404,
\* the cache and the subscription graph are what they were, no client is
\* notified and the error Reply is returned unchanged.
C5_OtherErrorInert ==
  [][(/\ ResolvedUpdate(last')
      /\ IsError(last'.result)
      /\ last'.result.status # NotFound)
     => (/\ cache' = cache
         /\ dependents' = dependents
         /\ subscriptions' = subscriptions
         /\ last'.notes = EmptyBag
         /\ ~last'.threw
         /\ last'.returned = last'.result)]_vars

\* a non-404 error arrived for a path that is cached and has a dependent
C5_Witness ==
  /\ ResolvedUpdate(last)
  /\ last.result.status = 500
  /\ MapHas(cache, last.path)
  /\ DependentsOf(dependents, last.path) # {}

\* C6: get(p) with a cache entry for p returns Reply.OK(cache[p]) and calls
\* the generator not at all; get(p) without one issues exactly one "get" for
\* p. While the latest update(p) that resolved was a success, get(p) returns
\* its payload without calling the generator.
C6_CacheThenServe ==
  [][last'.op = "get"
     => LET p == last'.path IN
        /\ IF MapHas(cache, p)
           THEN /\ last'.returned = ReplyOK(cache[p])
                /\ last'.issued = {}
                /\ inflight' = inflight
           ELSE \E call \in last'.issued :
                  /\ last'.issued = {call}
                  /\ call.verb = "get" /\ call.path = p
                  /\ inflight' = Append(inflight, call)
        /\ fresh[p] # NoValue
             => /\ last'.returned = ReplyOK(fresh[p])
                /\ last'.issued = {}
                /\ inflight' = inflight]_vars

\* get(p) has just been answered with the payload of the successful update
\* of p, another update of p being in flight
C6_Witness ==
  /\ last.op = "get"
  /\ fresh[last.path] # NoValue
  /\ last.returned = ReplyOK(fresh[last.path])
  /\ last.issued = {}
  /\ \E i \in DOMAIN inflight : inflight[i].path = last.path

\* what the resolution of update(p) did, read off the state after it
Wrote(l, c) ==
  /\ ~IsError(l.result)
  /\ MapHas(c, l.path) /\ c[l.path] = l.result.payload
Evicted(l, c) == l.result.status = NotFound /\ ~MapHas(c, l.path)

\* a step in which a non-error mutation resolves issues exactly one "get"
\* for its path
RefreshIssued ==
  (ResolvedMutation(last') /\ ~IsError(last'.result))
    => \E call \in last'.issued :
         /\ last'.issued = {call}
         /\ call.verb = "get" /\ call.path = last'.path
         /\ inflight' = Append(Without(inflight, last'.pos), call)

\* C7 as stated: a non-error mutation issues exactly one "get" for p, and
\* the resolution of that call writes the cache and fans out, or evicts.
C7_RefreshAlwaysActs ==
  [][/\ RefreshIssued
     /\ (ResolvedUpdate(last') /\ last'.call.origin = "refresh")
          => (Wrote(last', cache') \/ Evicted(last', cache'))]_vars

\* C7 amended: a non-error mutation issues exactly one "get" for p, with or
\* without subscribers; once the generator answers it, the update has
\* written the cache and fanned out (non-error), evicted (404), or, on any
\* other error, notified nobody.
C7_MutationTriggersRefresh ==
  /\ [][RefreshIssued]_vars
  /\ (\E i \in DOMAIN inflight : inflight[i].origin = "refresh")
       ~> (/\ ResolvedUpdate(last) /\ last.call.origin = "refresh"
           /\ \/ Wrote(last, cache)
              \/ Evicted(last, cache)
              \/ (/\ IsError(last.result) /\ last.result.status # NotFound
                  /\ last.notes = EmptyBag))

\* the refresh of a mutation has written the cache of a path nobody
\* subscribes to
C7_Witness ==
  /\ ResolvedUpdate(last)
  /\ last.call.origin = "refresh"
  /\ Wrote(last, cache)
  /\ DependentsOf(dependents, last.path) = {}

\* C8: when the Reply of a post, put, patch or delete is an error of any
\* status, no "get" is issued, the cache and the graph are unchanged, no
\* client is notified and the caller receives that Reply.
C8_FailedMutationInert ==
  [][(ResolvedMutation(last') /\ IsError(last'.result))
     => (/\ last'.issued = {}
         /\ inflight' = Without(inflight, last'.pos)
         /\ cache' = cache
         /\ dependents' = dependents
         /\ subscriptions' = subscriptions
         /\ last'.notes = EmptyBag
         /\ last'.returned = last'.result)]_vars

\* a mutation of a cached path with a dependent has just failed with 404
C8_Witness ==
  /\ ResolvedMutation(last)
  /\ last.result.status = NotFound
  /\ MapHas(cache, last.path)
  /\ DependentsOf(dependents, last.path) # {}

\* C9: unsubscribe(client, path) removes exactly the edge (client, path),
\* for every path string; unsubscribe(client) removes exactly the edges of
\* client.
C9_UnsubscribeExact ==
  [][last'.op = "unsubscribe"
     => LET gone == IF last'.path = Null
                    THEN {last'.client} \X Paths
                    ELSE {<<last'.client, last'.path>>}
        IN  /\ EdgesByPath(dependents') = EdgesByPath(dependents) \ gone
            /\ EdgesByClient(subscriptions')
                 = EdgesByClient(subscriptions) \ gone]_vars

\* C10: a notification carries undefined if and only if a 404 eviction
\* cascade delivers it.
C10_AbsentIffEviction ==
  \A n \in BagToSet(last.notes) :
    n.value = Undefined <=> (ResolvedUpdate(last) /\ last.result.status = NotFound)

C12_SubscribeIdempotent ==
  \A c \in Clients, p \in Paths :
    LET once == SubscribeOp(subscriptions, dependents, c, p)
        twice == SubscribeOp(once.subs, once.deps, c, p) IN
    /\ twice.subs = once.subs
    /\ twice.deps = once.deps
    /\ ~once.threw
    /\ ~twice.threw

\* subscribe(c, p) has just run beside another edge, and running it again
\* would change neither map
C12_Witness ==
  /\ last.op = "subscribe"
  /\ ~last.threw
  /\ last.client \in DependentsOf(dependents, last.path)
  /\ Cardinality(EdgesByPath(dependents)) >= 2
  /\ SubscribeOp(subscriptions, dependents, last.client, last.path).subs
       = subscriptions
  /\ SubscribeOp(subscriptions, dependents, last.client, last.path).deps
       = dependents


\* C13: operations on one path are neither serialized nor single-flighted:
\* update(p), and get(p) while p is not cached, issues its own "get" call
\* whatever calls for p are already pending, and the continuation of each
\* call with a non-error Reply writes that Reply's payload to cache[p],
\* whatever its place in the order of issue, leaving the other calls pending;
\* so the Reply that comes last wins.
C13_NotSerialized ==
  [][/\ (last'.op = "update" \/ (last'.op = "get" /\ ~MapHas(cache, last'.path)))
          => inflight' = Append(inflight,
                                Call("get", last'.path, Undefined, "update"))
     /\ (ResolvedUpdate(last') /\ ~IsError(last'.result))
          => /\ MapHas(cache', last'.path)
             /\ cache'[last'.path] = last'.result.payload
             /\ inflight' = Without(inflight, last'.pos)]_vars

\* two updates of "/a" were pending; the one issued second got its Reply
\* first and wrote its payload, then the one issued first got a Reply with
\* another payload and wrote that: the cache holds the older call's value
C13_Witness ==
  /\ Len(trail) = 2
  /\ ResolvedUpdate(trail[2].step)
  /\ ResolvedUpdate(trail[1].step)
  /\ trail[2].step.path = "/a"
  /\ trail[1].step.path = "/a"
  /\ trail[2].step.call.origin = "update"
  /\ trail[1].step.call.origin = "update"
  /\ trail[2].step.pos = 2
  /\ trail[1].step.pos = 1
  /\ ~IsError(trail[2].step.result)
  /\ ~IsError(trail[1].step.result)
  /\ trail[2].step.result.payload # trail[1].step.result.payload
  /\ cache["/a"] = trail[1].step.result.payload


\* C14: the continuation of update(p) is one step: with a non-error Reply
\* that step both holds the Reply's payload in cache[p] and sends every one of
\* its notifications, each for p and carrying that same payload, and it
\* touches no other pending call, however many updates of p are pending.
C14_AtomicResolution ==
  [][(ResolvedUpdate(last') /\ ~IsError(last'.result))
       => /\ cache'[last'.path] = last'.result.payload
          /\ \A n \in BagToSet(last'.notes) :
               n.path = last'.path /\ n.value = last'.result.payload
          /\ \A c \in DependentsOf(dependents, last'.path) :
               \E n \in BagToSet(last'.notes) : n.client = c
          /\ inflight' = Without(inflight, last'.pos)]_vars

\* an update of p got a non-error Reply and notified a subscriber with its
\* payload, now cached, while another update of p is still pending
C14_Witness ==
  /\ ResolvedUpdate(last)
  /\ ~IsError(last.result)
  /\ last.notes # EmptyBag
  /\ \A n \in BagToSet(last.notes) : n.value = last.result.payload
  /\ \E i \in DOMAIN inflight :
       inflight[i].verb = "get" /\ inflight[i].path = last.path
  /\ cache[last.path] = last.result.payload


\* C15: for distinct paths p and q, no step of get, update, post, put, patch
\* or delete on p (the call or its continuation) and no subscribe(c, p) or
\* unsubscribe(c, p) changes cache[q] or the dependents of q, or notifies
\* with path q.
C15_PathIndependence ==
  [][last'.path \in Paths
       => \A q \in Paths \ {last'.path} :
            /\ CacheEntry(cache', q) = CacheEntry(cache, q)
            /\ DependentsOf(dependents', q) = DependentsOf(dependents, q)
            /\ \A n \in BagToSet(last'.notes) : n.path # q]_vars


\* C16: in every reachable state the cache has an entry for p exactly when
\* the latest continuation of update(p) whose Reply was non-error or 404 had
\* a non-error Reply, and the entry is that Reply's payload (`settled`); and
\* no step other than a continuation of update changes the cache.
C16_CacheLifecycle ==
  [][/\ \A p \in Paths :
          /\ MapHas(cache, p) <=> settled[p] # NoValue
          /\ MapHas(cache, p) => cache[p] = settled[p]
          /\ MapHas(cache', p) <=> settled'[p] # NoValue
          /\ MapHas(cache', p) => cache'[p] = settled'[p]
     /\ cache' # cache => ResolvedUpdate(last')]_vars

\* after a value was cached for p, a later update of p got an error Reply
\* other than 404: the entry is still the payload of the earlier Reply
C16_Witness ==
  /\ ResolvedUpdate(last)
  /\ IsError(last.result)
  /\ last.result.status # NotFound
  /\ MapHas(cache, last.path)
  /\ cache[last.path] = settled[last.path]
  /\ \E q \in Paths : ~MapHas(cache, q)


\* C17: subscribe and unsubscribe change nothing but the two maps of the
\* graph: they leave the cache as it is, issue no generator call and notify
\* nobody, so a client that subscribes to a cached path is not sent the
\* cached value.
C17_GraphOnly ==
  [][last'.op \in {"subscribe", "unsubscribe"}
       => /\ cache' = cache
          /\ inflight' = inflight
          /\ calls' = calls
          /\ last'.issued = {}
          /\ last'.notes = EmptyBag]_vars

\* a client has just subscribed to a path that has a cache entry and became
\* its dependent; nothing was sent
C17_Witness ==
  /\ last.op = "subscribe"
  /\ MapHas(cache, last.path)
  /\ cache[last.path] # Undefined
  /\ last.client \in DependentsOf(dependents, last.path)
  /\ last.notes = EmptyBag


\* C18: the clients notified by the continuation of update(p), on a
\* non-error or a 404 Reply, are the dependents of p when the continuation
\* starts, not those at the call: a client whose subscribe(c, p) ran just
\* before the continuation, hence while the call was pending, is notified,
\* and one whose unsubscribe ran then is not.
C18_NotifiedAtResolution ==
  (/\ Len(trail) >= 1
   /\ ResolvedUpdate(last)
   /\ (~IsError(last.result) \/ last.result.status = NotFound)
   /\ ~last.threw)
  => LET told == {n.client : n \in BagToSet(last.notes)} IN
     /\ told = DependentsOf(trail[1].deps, last.path)
     /\ (Len(trail) = 2 /\ trail[2].step.op = "subscribe"
                        /\ trail[2].step.path = last.path)
          => trail[2].step.client \in told
     /\ (Len(trail) = 2 /\ trail[2].step.op = "unsubscribe"
                        /\ trail[2].step.path \in {last.path, Null})
          => trail[2].step.client \notin told

\* c1 was not a dependent of "/a" when update("/a") was called; it subscribed
\* while the call was pending and the continuation notified it, beside a
\* client that had subscribed before the call
C18_Witness ==
  /\ Len(trail) = 2
  /\ trail[2].step.op = "subscribe"
  /\ trail[2].step.path = "/a"
  /\ trail[2].step.client \notin DependentsOf(trail[2].deps, "/a")
  /\ DependentsOf(trail[2].deps, "/a") # {}
  /\ ResolvedUpdate(last)
  /\ last.path = "/a"
  /\ ~IsError(last.result)
  /\ {n.client : n \in BagToSet(last.notes)} = Clients


\* C19 as stated: from the return of a mutation of p with a non-error Reply
\* until its refresh gets its Reply, the cache keeps the entry p had when the
\* mutation returned: the step that follows the return, unless it is the
\* continuation of that refresh, leaves an existing entry of p as it was.
C19_WindowKeepsEntry ==
  [][(/\ ResolvedMutation(last)
      /\ ~IsError(last.result)
      /\ MapHas(cache, last.path)
      /\ ~(ResolvedUpdate(last') /\ last'.pos = Len(inflight)))
       => CacheEntry(cache', last.path) = CacheEntry(cache, last.path)]_vars

\* C19, amended: the continuation of a mutation with a non-error Reply
\* returns that Reply with the refresh call pending and the cache untouched;
\* while a refresh of p is pending, the entry of p changes only in the
\* continuation of an update of p (the refresh or another one), and get(p)
\* on a cached p returns the entry then cached and issues no call.
C19_RefreshWindow ==
  [][/\ (ResolvedMutation(last') /\ ~IsError(last'.result))
          => /\ last'.returned = last'.result
             /\ cache' = cache
             /\ inflight' = Append(Without(inflight, last'.pos),
                                   Call("get", last'.path, Undefined, "refresh"))
     /\ \A i \in DOMAIN inflight :
          (/\ inflight[i].origin = "refresh"
           /\ CacheEntry(cache', inflight[i].path)
                # CacheEntry(cache, inflight[i].path))
            => ResolvedUpdate(last') /\ last'.path = inflight[i].path
     /\ (last'.op = "get" /\ MapHas(cache, last'.path))
          => /\ last'.returned = ReplyOK(cache[last'.path])
             /\ last'.issued = {}
             /\ inflight' = inflight
             /\ calls' = calls]_vars

\* get(p) has just returned the cached value of p while the refresh started
\* by a mutation of p is still pending
C19_Witness ==
  /\ last.op = "get"
  /\ MapHas(cache, last.path)
  /\ last.returned = ReplyOK(cache[last.path])
  /\ last.issued = {}
  /\ \E i \in DOMAIN inflight :
       inflight[i].origin = "refresh" /\ inflight[i].path = last.path


\* C20: Schema.validate(data) asks the fields to parse data[key] in the order
\* of Object.keys(fields); at the first parse that answers undefined it
\* records lastError for that key and returns undefined, asking no further
\* field; if none does it returns an object whose keys are exactly the
\* schema's keys, each with its field's answer, so a key of data that is not
\* a field is not in it.
C20_ValidateInKeyOrder ==
  LET v == validation
      Defined(n) == \A j \in 1..n : v.answers[j] # Undefined IN
  /\ Len(v.asked) <= Len(v.fields)
  /\ \A j \in DOMAIN v.asked :
       /\ v.asked[j].key = v.fields[j]
       /\ v.asked[j].arg = Prop(v.data, v.fields[j])
  /\ v.pc = "parsing" => Len(v.answers) = Len(v.asked) - 1 /\ Defined(Len(v.answers))
  /\ v.returned.kind = "undefined"
       => /\ Len(v.answers) = Len(v.asked)
          /\ Len(v.answers) >= 1
          /\ v.answers[Len(v.answers)] = Undefined
          /\ Defined(Len(v.answers) - 1)
          /\ v.lastError = ErrorFor(v.fields[Len(v.answers)],
                                    Prop(v.data, v.fields[Len(v.answers)]))
  /\ v.returned.kind = "object"
       => /\ Len(v.answers) = Len(v.fields)
          /\ Defined(Len(v.answers))
          /\ DOMAIN v.returned.value = SeqRange(v.fields)
          /\ \A j \in DOMAIN v.fields :
               v.returned.value[v.fields[j]] = v.answers[j]

\* a schema of two fields, data with a key that is no field: the first field's
\* parse answered undefined and validate returned undefined with lastError
\* for that key, the second field never asked
C20_Witness ==
  /\ validation.returned.kind = "undefined"
  /\ Len(validation.fields) = 2
  /\ Len(validation.asked) = 1
  /\ validation.lastError.key = validation.fields[1]
  /\ "x" \in DOMAIN validation.data

====
